---- MODULE Spec2Model ----
(***************************************************************************)
(* Lifecycle orchestration of ccu-jack (main.go): run() with its deferred  *)
(* shutdown functions, the listener tasks that report on the fatal-error   *)
(* channel, the termination-signal queue and the event forwarding chain    *)
(* wired in startupApp.                                                    *)
(***************************************************************************)
EXTENDS Integers, Sequences, FiniteSets, TLC

\* ------------------------------------------------------------ bounds
\* largest number of controller events handed to the chain in one run
MaxEvents == 2

\* largest number of consecutive invocations of the certificate bootstrap
MaxCertCalls == 3

\* largest number of entries of the configured CORS origin list
MaxOrigins == 3

\* largest number of configuration writes during one run
MaxWrites == 2

\* ------------------------------------------------------------ constants
\* termSig := make(chan os.Signal), without a buffer
TermSigCap_Unbuffered == 1 - 1

\* termSig := make(chan os.Signal, 1)
TermSigCap == 1

caCertFile == "cacert.pem"
caKeyFile == "cacert.key"
serverCertFile == "svrcert.pem"
serverKeyFile == "svrcert.key"
CertFiles == {caCertFile, caKeyFile, serverCertFile, serverKeyFile}

\* the application and base services held in the package variables
Subsystems ==
  {"httpServer", "sysVarCol", "prgCol", "mqttServer", "reGaDOM", "deviceCol", "intercon"}

\* the listener tasks that were handed the serveErr channel
Listeners == {"httpPlain", "httpTLS", "mqttPlain", "mqttTLS"}

\* httpServer: Addr, AddrTLS, ServeErr: serveErr
HttpListeners == {"httpPlain", "httpTLS"}

\* mqttServer: Addr, AddrTLS, ServeErr: serveErr
MqttListeners == {"mqttPlain", "mqttTLS"}

\* the event handlers given the fatal-error channel as well
ServeErrProducers_WithHandlers == {"httpServer", "mqttServer", "mqttReceiver", "deviceCol"}

\* the broker built without ServeErr
ServeErrProducers_NoMqtt == {"httpServer"}

\* the components that were handed the fatal-error channel
ServeErrProducers == {"httpServer", "mqttServer"}

\* the controller events told apart (two parameters of one device channel)
Events == {"evA", "evB"}

VARIABLES
  pc,          \* position of the main task in main() / run()
  defers,      \* run()'s stack of deferred functions, last registered last
  stopIdx,     \* position inside shutdownApp
  err,         \* the error run() returns ("nil" for none)
  errSrc,      \* <<producer>> of the received serve error, else <<>>
  branch,      \* the branch of the wait-select that was taken
  exitCode,    \* -1 while the process runs, else the code given to os.Exit
  store,       \* rtcfg.Store: "unread", "read", "closed"
  files,       \* certificate files present in the working directory
  certsDone,   \* certificates() returned nil
  sigReg,      \* signal.Notify was called
  termSig,     \* number of signals buffered in termSig
  sigSeen,     \* a termination signal was delivered to the process
  firstArrival,\* while run() has not left the wait-select: which of a signal
               \* ("sig") and a listener's serve error ("err") came first
  sub,         \* state of each subsystem: "nil", "created", "started", "stopped"
  lst,         \* state of each listener task
  earlyFail,   \* history: a listener failed while startup was still running
  calls,       \* history: the lifecycle calls issued by the main task
  mqttReceiver,\* the mqtt.EventReceiver built in startupApp: [Broker, Next]
  receiver,    \* intercon.Receiver
  cb,          \* the callback delivering an event: <<>> or <<handler, event>>
  arrived,     \* history: events handed to the chain, in arrival order
  outcome,     \* history: what became of each arrived event
  sink,        \* history: <<"publish", e>> and <<"update", e>>, in order
  fwdErr,      \* an event handler offers a forwarding error on serveErr
  content,     \* per certificate file: the invocation of the bootstrap that
               \* wrote its content, 0 for none (absent, or there before)
  certCalls,   \* number of invocations of certificates() so far
  corsOrigins, \* cfg.HTTP.CORSOrigins
  corsPolicy,  \* the options of the CORS handler built in startupBase
  rlocks,      \* read locks of store held by the main task
  writer,      \* the configuration writer: "idle", "waiting", "writing"
  writes,      \* number of configuration writes so far
  config,      \* store.Config
  part,        \* the host address read for the URL under construction
  httpAddr,    \* the port in httpServer.Addr
  mqttAddr,    \* the port in mqttServer.Addr
  wsAddr,      \* the port in mqttWs.Addr
  serverURL,   \* intercon.ServerURL: <<host address, port>>
  binRPCURL    \* intercon.BinRPCURL: <<host address, port>>

vars ==
  <<pc, defers, stopIdx, err, errSrc, branch, exitCode, store, files,
    certsDone, sigReg, termSig, sigSeen, firstArrival, sub, lst, earlyFail, calls,
    mqttReceiver, receiver, cb, arrived, outcome, sink, fwdErr, content,
    certCalls, corsOrigins, corsPolicy, rlocks, writer, writes, config, part,
    httpAddr, mqttAddr, wsAddr, serverURL, binRPCURL>>

mainVars ==
  <<pc, defers, stopIdx, err, errSrc, branch, exitCode>>
cfgVars == <<store>>
certVars == <<files, certsDone>>
sigVars == <<sigReg, termSig, sigSeen, firstArrival>>
subVars == <<sub, lst, earlyFail>>
wireVars == <<mqttReceiver, receiver>>
evVars == <<cb, arrived, outcome, sink, fwdErr>>
bootVars == <<content, certCalls>>
corsVars == <<corsOrigins, corsPolicy>>
lockVars == <<rlocks, writer, writes, config>>
addrVars == <<part, httpAddr, mqttAddr, wsAddr, serverURL, binRPCURL>>

\* what the lifecycle steps of run() leave alone: the state the finer views
\* of single phases (CertSpec, CorsSpec, CfgSpec) keep
fineVars == <<bootVars, corsVars, lockVars, addrVars>>

\* ------------------------------------------------------------ helpers
StartupPcs ==
  {"startupBase", "sysVarStart", "prgStart", "mqttStart", "pipeline",
   "reGaStart", "deviceStart", "interconStart"}

\* startupApp() with the interconnector started before the chain is built
StartupAppOrder_InterconFirst ==
  <<"sysVarStart", "prgStart", "mqttStart", "interconStart", "pipeline", "reGaStart",
    "deviceStart">>

\* startupApp(): its statements in the order of the function body
StartupAppOrder ==
  <<"sysVarStart", "prgStart", "mqttStart", "pipeline", "reGaStart", "deviceStart",
    "interconStart">>

\* the statement of startupApp() after statement p; run() goes on to the
\* delay after the last one
After(p) ==
  LET i == CHOOSE j \in 1..Len(StartupAppOrder) : StartupAppOrder[j] = p
  IN  IF i < Len(StartupAppOrder) THEN StartupAppOrder[i + 1] ELSE "sleep"

\* startupApp() has returned: run() registers defer shutdownApp()
AppDefers(p) == IF After(p) = "sleep" THEN Append(defers, "shutdownApp") ELSE defers

Start(s) == <<"start", s>>
Stop(s) == <<"stop", s>>

ListenersOf(s) ==
  IF s = "httpServer" THEN HttpListeners
  ELSE IF s = "mqttServer" THEN MqttListeners
  ELSE {}

\* a start call: the subsystem's tasks run, its listeners serve
Started(s) ==
  /\ sub' = [sub EXCEPT ![s] = "started"]
  /\ lst' = [l \in Listeners |-> IF l \in ListenersOf(s) THEN "serving" ELSE lst[l]]
  /\ calls' = Append(calls, Start(s))

\* a stop call: blocks until the subsystem's tasks have ended; a listener
\* still offering its error on serveErr gives up, its error ignored
Stopped(s) ==
  /\ sub' = [sub EXCEPT ![s] = "stopped"]
  /\ lst' = [l \in Listeners |-> IF l \in ListenersOf(s) THEN "ended" ELSE lst[l]]
  /\ calls' = Append(calls, Stop(s))

\* return from run(): the deferred functions run, last registered first
Return(e) ==
  /\ err' = e
  /\ pc' = "unwind"

\* ------------------------------------------------------------ initial state
BootInit ==
  /\ content = [f \in CertFiles |-> 0]
  /\ certCalls = 0

\* nothing is registered, started or wired, and no event has happened
NothingStarted ==
  /\ stopIdx = 1
  /\ err = "nil"
  /\ errSrc = <<>>
  /\ branch = "none"
  /\ exitCode = -1
  /\ termSig = 0
  /\ sigSeen = FALSE
  /\ firstArrival = "none"
  /\ sub = [s \in Subsystems |-> "nil"]
  /\ lst = [l \in Listeners |-> "idle"]
  /\ earlyFail = FALSE
  /\ calls = <<>>
  /\ mqttReceiver = [Broker |-> "nil", Next |-> "nil"]
  /\ receiver = "nil"
  /\ cb = <<>>
  /\ arrived = <<>>
  /\ outcome = <<>>
  /\ sink = <<>>
  /\ fwdErr = FALSE

\* no CORS handler is built yet
NoPolicy == [methods |-> {}, origins |-> {}, credentials |-> FALSE]

\* no origin list is configured
CorsInit ==
  /\ corsOrigins = <<>>
  /\ corsPolicy = NoPolicy

\* the configuration fields that end up in addresses and URLs
CfgFields == {"HostAddress", "HTTPPort", "MQTTPort", "BINRPCPort"}

\* the values of a field told apart: the one in the configuration file and
\* one other
CfgValues == {"v1", "v2"}

Configs == [CfgFields -> CfgValues]

\* the configuration store.Read() loads
FileConfig == [f \in CfgFields |-> "v1"]

\* no lock is held, no writer is at work, nothing is bound or built
LockInit ==
  /\ rlocks = 0
  /\ writer = "idle"
  /\ writes = 0
  /\ config = FileConfig
  /\ part = "unset"
  /\ httpAddr = "unset"
  /\ mqttAddr = "unset"
  /\ wsAddr = "unset"
  /\ serverURL = <<"unset", "unset">>
  /\ binRPCURL = <<"unset", "unset">>

Init ==
  /\ BootInit
  /\ CorsInit
  /\ LockInit
  /\ NothingStarted
  /\ certsDone = FALSE
  /\ sigReg = FALSE
  /\ pc = "configure"
  /\ defers = <<>>
  /\ store = "unread"
  /\ files \in {{}, CertFiles, {serverCertFile}}

\* ------------------------------------------------------------ run(): setup
\* configure(): store.Read(), then the log file when one is configured
ConfigureResult ==
  {[store |-> "unread", err |-> "ConfigError"],
   [store |-> "read", err |-> "nil"],
   [store |-> "read", err |-> "LogFileError"]}

\* run() going on after a failed configure()
ConfigureFailed_Ignored(e) == FALSE

\* if err := configure(); err != nil { return err }
ConfigureFailed(e) == e # "nil"

\* run() with defer shutdownBase() registered right after configure()
Configure_DefersShutdownBase ==
  /\ pc = "configure"
  /\ \E r \in ConfigureResult :
       /\ store' = r.store
       /\ err' = r.err
       /\ IF ConfigureFailed(r.err)
            THEN /\ defers' = <<"logShutdown">>
                 /\ pc' = "unwind"
            ELSE /\ defers' = <<"logShutdown", "storeWriteClose", "shutdownBase">>
                 /\ pc' = "message"
  /\ UNCHANGED fineVars
  /\ UNCHANGED <<stopIdx, errSrc, branch, exitCode, certVars, sigVars, subVars,
                 calls, wireVars, evVars>>

\* run() lines 321-334: the first defer, configure(), the second defer
Configure ==
  /\ pc = "configure"
  /\ \E r \in ConfigureResult :
       /\ store' = r.store
       /\ err' = r.err
       /\ IF ConfigureFailed(r.err)
            THEN /\ defers' = <<"logShutdown">>
                 /\ pc' = "unwind"
            ELSE /\ defers' = <<"logShutdown", "storeWriteClose">>
                 /\ pc' = "message"
  /\ UNCHANGED fineVars
  /\ UNCHANGED <<stopIdx, errSrc, branch, exitCode, certVars, sigVars, subVars,
                 calls, wireVars, evVars>>

\* message(): logs the configuration
Message ==
  /\ pc = "message"
  /\ pc' = "certificates"
  /\ UNCHANGED fineVars
  /\ UNCHANGED <<defers, stopIdx, err, errSrc, branch, exitCode, cfgVars, certVars,
                 sigVars, subVars, calls, wireVars, evVars>>

\* the presence test made on all four files
CertPresent_AllFour == CertFiles \subseteq files

\* certificate already present?
CertPresent == serverCertFile \in files /\ serverKeyFile \in files

\* run() going on after a failed certificates()
CertificatesFailed_Ignored(e) == FALSE

\* if err := certificates(); err != nil { return err }
CertificatesFailed(e) == e # "nil"

\* certificates(): nothing when the pair is present, else Generate(), which
\* writes the four files or fails having written some of them
Certificates ==
  /\ pc = "certificates"
  /\ \E e \in {"nil", "CertificateError"}, w \in SUBSET CertFiles :
       /\ IF CertPresent
            THEN /\ e = "nil"
                 /\ w = {}
            ELSE (e = "nil") <=> (w = CertFiles)
       /\ files' = files \cup w
       /\ certsDone' = (e = "nil")
       /\ err' = e
       /\ pc' = IF CertificatesFailed(e) THEN "unwind" ELSE "notify"
  /\ UNCHANGED fineVars
  /\ UNCHANGED <<defers, stopIdx, errSrc, branch, exitCode, cfgVars, sigVars,
                 subVars, calls, wireVars, evVars>>

\* termSig := make(chan os.Signal, 1); signal.Notify; serveErr := make(chan error)
Notify ==
  /\ pc = "notify"
  /\ sigReg' = TRUE
  /\ pc' = "startupBase"
  /\ UNCHANGED fineVars
  /\ UNCHANGED <<defers, stopIdx, err, errSrc, branch, exitCode, cfgVars, certVars,
                 termSig, sigSeen, firstArrival, subVars, calls, wireVars, evVars>>

\* ------------------------------------------------------------ run(): startup
\* startupBase(serveErr); defer shutdownBase()
StartupBase ==
  /\ pc = "startupBase"
  /\ Started("httpServer")
  /\ defers' = Append(defers, "shutdownBase")
  /\ pc' = StartupAppOrder[1]
  /\ UNCHANGED fineVars
  /\ UNCHANGED <<stopIdx, err, errSrc, branch, exitCode, cfgVars, certVars, sigVars,
                 earlyFail, wireVars, evVars>>

\* startupApp: deviceCol = NewDeviceCol; sysVarCol = NewSysVarCol; sysVarCol.Start()
SysVarColStart ==
  /\ pc = "sysVarStart"
  /\ sub' = [sub EXCEPT !["deviceCol"] = "created", !["sysVarCol"] = "started"]
  /\ calls' = Append(calls, Start("sysVarCol"))
  /\ pc' = After(pc)
  /\ defers' = AppDefers(pc)
  /\ UNCHANGED fineVars
  /\ UNCHANGED <<stopIdx, err, errSrc, branch, exitCode, cfgVars, certVars,
                 sigVars, lst, earlyFail, wireVars, evVars>>

\* startupApp: prgCol = NewProgramCol; prgCol.Start()
PrgColStart ==
  /\ pc = "prgStart"
  /\ Started("prgCol")
  /\ pc' = After(pc)
  /\ defers' = AppDefers(pc)
  /\ UNCHANGED fineVars
  /\ UNCHANGED <<stopIdx, err, errSrc, branch, exitCode, cfgVars, certVars,
                 sigVars, earlyFail, wireVars, evVars>>

\* startupApp: mqttServer = &mqtt.Broker{...}; mqttServer.Start()
MqttServerStart ==
  /\ pc = "mqttStart"
  /\ Started("mqttServer")
  /\ pc' = After(pc)
  /\ defers' = AppDefers(pc)
  /\ UNCHANGED fineVars
  /\ UNCHANGED <<stopIdx, err, errSrc, branch, exitCode, cfgVars, certVars,
                 sigVars, earlyFail, wireVars, evVars>>

\* mqttReceiver := &mqtt.EventReceiver{Broker: mqttServer, Next: deviceCol}
NewEventReceiver == [Broker |-> "mqttServer", Next |-> "deviceCol"]

\* the interconnector wired to the device collection, past the MQTT receiver
InterconReceiver_Direct == "deviceCol"

\* intercon = &itf.Interconnector{..., Receiver: mqttReceiver, ...}
InterconReceiver == "mqttReceiver"

\* startupApp: the event receiver and the interconnector are built
BuildPipeline ==
  /\ pc = "pipeline"
  /\ mqttReceiver' = NewEventReceiver
  /\ receiver' = InterconReceiver
  /\ sub' = [sub EXCEPT !["intercon"] = "created"]
  /\ pc' = After(pc)
  /\ defers' = AppDefers(pc)
  /\ UNCHANGED fineVars
  /\ UNCHANGED <<stopIdx, err, errSrc, branch, exitCode, cfgVars, certVars,
                 sigVars, lst, earlyFail, calls, evVars>>

\* startupApp: reGaDOM = NewReGaDOM; reGaDOM.Start()
ReGaDOMStart ==
  /\ pc = "reGaStart"
  /\ Started("reGaDOM")
  /\ pc' = After(pc)
  /\ defers' = AppDefers(pc)
  /\ UNCHANGED fineVars
  /\ UNCHANGED <<stopIdx, err, errSrc, branch, exitCode, cfgVars, certVars,
                 sigVars, earlyFail, wireVars, evVars>>

\* startupApp: deviceCol.Start()
DeviceColStart ==
  /\ pc = "deviceStart"
  /\ Started("deviceCol")
  /\ pc' = After(pc)
  /\ defers' = AppDefers(pc)
  /\ UNCHANGED fineVars
  /\ UNCHANGED <<stopIdx, err, errSrc, branch, exitCode, cfgVars, certVars,
                 sigVars, earlyFail, wireVars, evVars>>

\* startupApp: intercon.Start(); then run() defers shutdownApp()
InterconStart ==
  /\ pc = "interconStart"
  /\ Started("intercon")
  /\ pc' = After(pc)
  /\ defers' = AppDefers(pc)
  /\ UNCHANGED fineVars
  /\ UNCHANGED <<stopIdx, err, errSrc, branch, exitCode, cfgVars, certVars, sigVars,
                 earlyFail, wireVars, evVars>>

\* time.Sleep(1 * time.Second)
Sleep ==
  /\ pc = "sleep"
  /\ pc' = "select"
  /\ UNCHANGED fineVars
  /\ UNCHANGED <<defers, stopIdx, err, errSrc, branch, exitCode, cfgVars, certVars,
                 sigVars, subVars, calls, wireVars, evVars>>

\* ------------------------------------------------------------ run(): wait
\* the tasks that may send on serveErr
Senders == Listeners \cup {"eventHandler"}

\* a receive that does not wait for a sender
Offers_AnyListener(p) == p \in Listeners

\* sender p is blocked in its send on the unbuffered serveErr
Offers(p) == IF p \in Listeners THEN lst[p] = "failed" ELSE fwdErr

\* case err := <-serveErr: return err
SelectErr(p) ==
  /\ pc = "select"
  /\ Offers(p)
  /\ lst' = [l \in Listeners |-> IF l = p THEN "ended" ELSE lst[l]]
  /\ fwdErr' = IF p \in Listeners THEN fwdErr ELSE FALSE
  /\ branch' = "err"
  /\ errSrc' = <<p>>
  /\ firstArrival' = "none"
  /\ Return("ServeError")
  /\ UNCHANGED fineVars
  /\ UNCHANGED <<defers, stopIdx, exitCode, cfgVars, certVars, sigReg, termSig,
                 sigSeen, sub, earlyFail, calls, wireVars, cb, arrived, outcome, sink>>

\* the signal acted on wherever the main task is, not only in the select
SelectSig_Anywhere ==
  /\ pc \in StartupPcs \cup {"sleep", "select"}
  /\ termSig > 0
  /\ termSig' = termSig - 1
  /\ branch' = "sig"
  /\ firstArrival' = "none"
  /\ Return("nil")
  /\ UNCHANGED fineVars
  /\ UNCHANGED <<defers, stopIdx, errSrc, exitCode, cfgVars, certVars, sigReg,
                 sigSeen, subVars, calls, wireVars, evVars>>

\* case <-termSig: return nil
SelectSig ==
  /\ pc = "select"
  /\ termSig > 0
  /\ termSig' = termSig - 1
  /\ branch' = "sig"
  /\ firstArrival' = "none"
  /\ Return("nil")
  /\ UNCHANGED fineVars
  /\ UNCHANGED <<defers, stopIdx, errSrc, exitCode, cfgVars, certVars, sigReg,
                 sigSeen, subVars, calls, wireVars, evVars>>

\* ------------------------------------------------------------ run(): return
\* a deferred function that receives from serveErr and returns what it gets
Unwind_ReceivesServeErr ==
  /\ pc = "unwind"
  /\ IF defers = <<>>
       THEN /\ pc' = "returned"
            /\ defers' = defers
       ELSE /\ pc' = defers[Len(defers)]
            /\ defers' = SubSeq(defers, 1, Len(defers) - 1)
  /\ err' = IF \E l \in Listeners : lst[l] = "failed" THEN "ServeError" ELSE err
  /\ UNCHANGED fineVars
  /\ UNCHANGED <<stopIdx, errSrc, branch, exitCode, cfgVars, certVars, sigVars,
                 subVars, calls, wireVars, evVars>>

\* the next deferred function is taken from the stack; run() has returned
\* when the stack is empty
Unwind ==
  /\ pc = "unwind"
  /\ IF defers = <<>>
       THEN /\ pc' = "returned"
            /\ defers' = defers
       ELSE /\ pc' = defers[Len(defers)]
            /\ defers' = SubSeq(defers, 1, Len(defers) - 1)
  /\ UNCHANGED fineVars
  /\ UNCHANGED <<stopIdx, err, errSrc, branch, exitCode, cfgVars, certVars, sigVars,
                 subVars, calls, wireVars, evVars>>

\* shutdownApp() with the first two stop calls exchanged
ShutdownAppOrder_Swapped ==
  <<"deviceCol", "intercon", "reGaDOM", "mqttServer", "prgCol", "sysVarCol">>

\* shutdownApp() without prgCol.Stop()
ShutdownAppOrder_NoPrgCol ==
  <<"intercon", "deviceCol", "reGaDOM", "mqttServer", "sysVarCol">>

\* shutdownApp(): the stop calls in the order of the function body
ShutdownAppOrder ==
  <<"intercon", "deviceCol", "reGaDOM", "mqttServer", "prgCol", "sysVarCol">>

\* one stop call of shutdownApp(); intercon.Stop() waits for a running callback
ShutdownApp ==
  /\ pc = "shutdownApp"
  /\ stopIdx <= Len(ShutdownAppOrder)
  /\ ShutdownAppOrder[stopIdx] = "intercon" => cb = <<>>
  /\ Stopped(ShutdownAppOrder[stopIdx])
  /\ stopIdx' = stopIdx + 1
  /\ pc' = IF stopIdx = Len(ShutdownAppOrder) THEN "unwind" ELSE pc
  /\ UNCHANGED fineVars
  /\ UNCHANGED <<defers, err, errSrc, branch, exitCode, cfgVars, certVars, sigVars,
                 earlyFail, wireVars, evVars>>

\* shutdownBase(): httpServer.Shutdown()
ShutdownBase ==
  /\ pc = "shutdownBase"
  /\ Stopped("httpServer")
  /\ pc' = "unwind"
  /\ UNCHANGED fineVars
  /\ UNCHANGED <<defers, stopIdx, err, errSrc, branch, exitCode, cfgVars, certVars,
                 sigVars, earlyFail, wireVars, evVars>>

\* the deferred function without store.Close()
StoreWriteCloseCalls_NoClose == <<<<"store", "Write">>>>

\* the calls of the deferred function registered after configure()
StoreWriteCloseCalls == <<<<"store", "Write">>, <<"store", "Close">>>>

\* defer func() { store.Write(); store.Close() }()
StoreWriteClose ==
  /\ pc = "storeWriteClose"
  /\ calls' = calls \o StoreWriteCloseCalls
  /\ store' = "closed"
  /\ pc' = "unwind"
  /\ UNCHANGED fineVars
  /\ UNCHANGED <<defers, stopIdx, err, errSrc, branch, exitCode, certVars,
                 sigVars, subVars, wireVars, evVars>>

\* defer func() { log.Info("Shutting down") }()
LogShutdown ==
  /\ pc = "logShutdown"
  /\ pc' = "unwind"
  /\ UNCHANGED fineVars
  /\ UNCHANGED <<defers, stopIdx, err, errSrc, branch, exitCode, cfgVars, certVars,
                 sigVars, subVars, calls, wireVars, evVars>>

\* main() with the test of err inverted
ExitCodeOf_Inverted(e) == IF e = "nil" THEN 1 ELSE 0

\* the code main() exits with
ExitCodeOf(e) == IF e # "nil" THEN 1 ELSE 0

\* main(): log the error, close the log file, os.Exit; the log file handle is
\* not part of the state
MainExit ==
  /\ pc = "returned"
  /\ exitCode' = ExitCodeOf(err)
  /\ pc' = "exited"
  /\ UNCHANGED fineVars
  /\ UNCHANGED <<defers, stopIdx, err, errSrc, branch, cfgVars, certVars, sigVars,
                 subVars, calls, wireVars, evVars>>

\* ------------------------------------------------------------ environment
\* the event is the first of the two the wait-select waits for
FirstArrival(what) ==
  IF branch = "none" /\ firstArrival = "none" THEN what ELSE firstArrival

\* an interrupt or terminate signal reaches the process after signal.Notify:
\* the queue takes it when there is room, else it is dropped
Signal ==
  /\ sigReg
  /\ pc # "exited"
  /\ ~sigSeen \/ termSig < TermSigCap
  /\ sigSeen' = TRUE
  /\ termSig' = IF termSig < TermSigCap THEN termSig + 1 ELSE termSig
  /\ firstArrival' = FirstArrival("sig")
  /\ UNCHANGED fineVars
  /\ UNCHANGED <<mainVars, cfgVars, certVars, sigReg, subVars, calls, wireVars,
                 evVars>>

\* the server a listener belongs to
Owner(l) == IF l \in HttpListeners THEN "httpServer" ELSE "mqttServer"

\* a serving listener fails to bind or serve; it offers its error on the
\* ServeErr channel its server was given, and ends unreported without one
ListenerFail(l) ==
  /\ lst[l] = "serving"
  /\ lst' = [lst EXCEPT ![l] = IF Owner(l) \in ServeErrProducers THEN "failed" ELSE "crashed"]
  /\ earlyFail' = (earlyFail \/ pc \in StartupPcs)
  /\ firstArrival' = IF Owner(l) \in ServeErrProducers THEN FirstArrival("err")
                     ELSE firstArrival
  /\ UNCHANGED fineVars
  /\ UNCHANGED <<mainVars, cfgVars, certVars, sigReg, termSig, sigSeen, sub, calls,
                 wireVars, evVars>>

\* ------------------------------------------------------------ event chain
\* the interconnector's callback server hands an event to intercon.Receiver;
\* the callback transport delivers one event at a time
EventArrive(e) ==
  /\ sub["intercon"] = "started"
  /\ cb = <<>>
  /\ Len(arrived) < MaxEvents
  /\ arrived' = Append(arrived, e)
  /\ cb' = <<receiver, e>>
  /\ UNCHANGED fineVars
  /\ UNCHANGED <<mainVars, cfgVars, certVars, sigVars, subVars, calls, wireVars,
                 outcome, sink, fwdErr>>

\* a handler's failure is logged and the event dropped; only a component
\* that was handed serveErr reports on it
Dropped(handler, what) ==
  /\ outcome' = Append(outcome, what)
  /\ cb' = <<>>
  /\ fwdErr' = (fwdErr \/ handler \in ServeErrProducers)
  /\ sink' = sink

\* the handler at the head of the chain processes the event:
\* mqtt.EventReceiver publishes and forwards to Next, the device collection
\* updates its cache
HandleEvent ==
  /\ cb # <<>>
  /\ LET handler == cb[1]
         e == cb[2]
     IN  IF handler = "mqttReceiver"
           THEN \/ /\ sink' = Append(sink, <<"publish", e>>)
                   /\ cb' = <<mqttReceiver.Next, e>>
                   /\ UNCHANGED <<outcome, fwdErr>>
                \/ Dropped(handler, "publishFailed")
           ELSE IF handler = "deviceCol"
             THEN \/ /\ sink' = Append(sink, <<"update", e>>)
                     /\ outcome' = Append(outcome, "ok")
                     /\ cb' = <<>>
                     /\ fwdErr' = fwdErr
                  \/ Dropped(handler, "updateFailed")
             ELSE Dropped(handler, "noHandler")
  /\ UNCHANGED fineVars
  /\ UNCHANGED <<mainVars, cfgVars, certVars, sigVars, subVars, calls, wireVars,
                 arrived>>

MainNext ==
  \/ Configure
  \/ Message
  \/ Certificates
  \/ Notify
  \/ StartupBase
  \/ SysVarColStart
  \/ PrgColStart
  \/ MqttServerStart
  \/ BuildPipeline
  \/ ReGaDOMStart
  \/ DeviceColStart
  \/ InterconStart
  \/ Sleep
  \/ \E p \in Senders : SelectErr(p)
  \/ SelectSig
  \/ Unwind
  \/ ShutdownApp
  \/ ShutdownBase
  \/ StoreWriteClose
  \/ LogShutdown
  \/ MainExit

Next ==
  \/ MainNext
  \/ Signal
  \/ \E l \in Listeners : ListenerFail(l)
  \/ \E e \in Events : EventArrive(e)
  \/ HandleEvent

Spec == Init /\ [][Next]_vars

\* the main task and a running callback are scheduled as long as they can
\* take a step; signals, listener failures and controller events are the
\* environment's and need not happen
FairSpec == Spec /\ WF_vars(MainNext) /\ WF_vars(HandleEvent)

\* ------------------------------------------------------------ certificates()
\* the lifecycle state, which an invocation of certificates() leaves alone
lifeVars ==
  <<defers, stopIdx, errSrc, branch, exitCode, cfgVars, sigVars, subVars, calls,
    wireVars, evVars>>

\* certificates() invoked once more in the same working directory (by the
\* next run of the program): the presence test, and Generate() unless the
\* pair is present; Generate() writes the four files with fresh content or
\* fails having written some of them
CertificatesCall ==
  /\ pc = "certificates"
  /\ certCalls < MaxCertCalls
  /\ \E e \in {"nil", "CertificateError"}, w \in SUBSET CertFiles :
       /\ IF CertPresent
            THEN /\ e = "nil"
                 /\ w = {}
            ELSE (e = "nil") <=> (w = CertFiles)
       /\ files' = files \cup w
       /\ content' = [f \in CertFiles |-> IF f \in w THEN certCalls + 1 ELSE content[f]]
       /\ certsDone' = (e = "nil")
       /\ err' = e
  /\ certCalls' = certCalls + 1
  /\ pc' = pc
  /\ UNCHANGED <<lifeVars, corsVars, lockVars, addrVars>>

\* run() has reached certificates(): configure() and message() are done,
\* the working directory holds any of the certificate files
CertInit ==
  /\ BootInit
  /\ CorsInit
  /\ LockInit
  /\ NothingStarted
  /\ certsDone = FALSE
  /\ sigReg = FALSE
  /\ pc = "certificates"
  /\ defers = <<"logShutdown", "storeWriteClose">>
  /\ store = "read"
  /\ files \in SUBSET CertFiles

\* consecutive invocations of certificates() in one working directory
CertSpec == CertInit /\ [][CertificatesCall]_vars

\* ------------------------------------------------------------ startupBase(): CORS
\* the origins an origin list may name
OriginNames == {"*", "null", "https://a.example", "https://b.example"}

\* the origin lists of at most MaxOrigins entries
OriginLists == UNION {[1..n -> OriginNames] : n \in 0..MaxOrigins}

\* the options given to handlers.CORS: the two methods always; with an empty
\* list nothing else (the handler then keeps its default, every origin, and
\* no credentials), else AllowedOrigins(list) and AllowCredentials()
CORSOptions(origins) ==
  IF Len(origins) = 0
    THEN [methods |-> {"GET", "PUT"}, origins |-> {"*"}, credentials |-> FALSE]
    ELSE [methods |-> {"GET", "PUT"},
          origins |-> {origins[i] : i \in DOMAIN origins},
          credentials |-> TRUE]

\* startupBase(): the CORS handler for VEAP is built
BuildCORS ==
  /\ pc = "startupBase"
  /\ corsPolicy = NoPolicy
  /\ corsPolicy' = CORSOptions(corsOrigins)
  /\ pc' = pc
  /\ UNCHANGED <<lifeVars, certVars, err, corsOrigins, bootVars, lockVars, addrVars>>

\* run() has reached startupBase() with some origin list configured
CorsSpecInit ==
  /\ BootInit
  /\ LockInit
  /\ NothingStarted
  /\ certsDone = TRUE
  /\ sigReg = TRUE
  /\ pc = "startupBase"
  /\ defers = <<"logShutdown", "storeWriteClose">>
  /\ store = "read"
  /\ files = CertFiles
  /\ corsOrigins \in OriginLists
  /\ corsPolicy = NoPolicy

\* the CORS handler built for each origin list
CorsSpec == CorsSpecInit /\ [][BuildCORS]_vars

\* ------------------------------------------------------------ configuration lock
\* the phases of run() that read the configuration, with the positions of
\* the main task in each: before store.RLock(), the first statement under
\* the lock, the deferred store.RUnlock(), and where run() goes on
Phase ==
  [configure    |-> [lock |-> "configure.RLock", body |-> "configure.logging",
                     unlock |-> "configure.RUnlock", next |-> "message.RLock"],
   message      |-> [lock |-> "message.RLock", body |-> "message.log",
                     unlock |-> "message.RUnlock", next |-> "certificates.Stat"],
   certificates |-> [lock |-> "certificates.RLock", body |-> "certificates.Generate",
                     unlock |-> "certificates.RUnlock", next |-> "startupBase.RLock"],
   startupBase  |-> [lock |-> "startupBase.RLock", body |-> "startupBase.httpServer",
                     unlock |-> "startupBase.RUnlock", next |-> "startupApp.RLock"],
   startupApp   |-> [lock |-> "startupApp.RLock", body |-> "startupApp.mqttServer",
                     unlock |-> "startupApp.RUnlock", next |-> "sleep"]]

Phases == DOMAIN Phase

\* what the steps of the configuration view leave alone
keptVars ==
  <<defers, stopIdx, errSrc, branch, exitCode, sigVars, lst, earlyFail, calls,
    wireVars, evVars, bootVars, corsVars>>

\* configure(): store.Read()
StoreRead ==
  /\ pc = "configure"
  /\ \/ /\ store' = "read"
        /\ pc' = Phase.configure.lock
        /\ err' = err
     \/ /\ store' = store
        /\ pc' = "returned"
        /\ err' = "ConfigError"
  /\ UNCHANGED <<keptVars, certVars, sub, lockVars, addrVars>>

\* a phase that goes on without having taken the read lock
RLock_NotTaken(ph) ==
  /\ pc = Phase[ph].lock
  /\ pc' = Phase[ph].body
  /\ UNCHANGED <<keptVars, cfgVars, certVars, sub, err, lockVars, addrVars>>

\* store.RLock(): waits while a writer holds or waits for the lock
RLock(ph) ==
  /\ pc = Phase[ph].lock
  /\ writer = "idle"
  /\ rlocks' = rlocks + 1
  /\ pc' = Phase[ph].body
  /\ UNCHANGED <<keptVars, cfgVars, certVars, sub, err, writer, writes, config,
                 addrVars>>

\* a phase that returns without releasing the read lock
RUnlock_Skipped(ph) ==
  /\ pc = Phase[ph].unlock
  /\ pc' = IF err # "nil" THEN "returned" ELSE Phase[ph].next
  /\ UNCHANGED <<keptVars, cfgVars, certVars, sub, err, lockVars, addrVars>>

\* defer store.RUnlock(): runs when the phase returns, with or without an
\* error; run() returns an error at once
RUnlock(ph) ==
  /\ pc = Phase[ph].unlock
  /\ rlocks' = rlocks - 1
  /\ pc' = IF err # "nil" THEN "returned" ELSE Phase[ph].next
  /\ UNCHANGED <<keptVars, cfgVars, certVars, sub, err, writer, writes, config,
                 addrVars>>

\* configure(): the log level is set and the log file opened
ConfigureLogging ==
  /\ pc = "configure.logging"
  /\ err' \in {"nil", "LogFileError"}
  /\ pc' = Phase.configure.unlock
  /\ UNCHANGED <<keptVars, cfgVars, certVars, sub, lockVars, addrVars>>

\* message(): the configuration is logged
MessageLog ==
  /\ pc = "message.log"
  /\ pc' = Phase.message.unlock
  /\ UNCHANGED <<keptVars, cfgVars, certVars, sub, err, lockVars, addrVars>>

\* certificates(): the presence test, made before the lock is taken
CertificatesStat ==
  /\ pc = "certificates.Stat"
  /\ certsDone' = CertPresent
  /\ pc' = IF CertPresent THEN Phase.certificates.next ELSE Phase.certificates.lock
  /\ UNCHANGED <<keptVars, cfgVars, files, sub, err, lockVars, addrVars>>

\* certificates(): Generate() for cfg.Host.Name
CertificatesGenerate ==
  /\ pc = "certificates.Generate"
  /\ \E e \in {"nil", "CertificateError"}, w \in SUBSET CertFiles :
       /\ (e = "nil") <=> (w = CertFiles)
       /\ files' = files \cup w
       /\ certsDone' = (e = "nil")
       /\ err' = e
  /\ pc' = Phase.certificates.unlock
  /\ UNCHANGED <<keptVars, cfgVars, sub, lockVars, addrVars>>

\* startupBase(): httpServer = &httputil.Server{Addr: cfg.HTTP.Port, ...};
\* httpServer.Startup(); the VEAP handler with the configuration resource
\* is registered
StartupBaseHTTPServer ==
  /\ pc = "startupBase.httpServer"
  /\ httpAddr' = config.HTTPPort
  /\ sub' = [sub EXCEPT !["httpServer"] = "started"]
  /\ pc' = Phase.startupBase.unlock
  /\ UNCHANGED <<keptVars, cfgVars, certVars, err, lockVars, part, mqttAddr, wsAddr,
                 serverURL, binRPCURL>>

\* startupApp(): mqttServer = &mqtt.Broker{Addr: cfg.MQTT.Port, ...}
StartupAppMqttServer ==
  /\ pc = "startupApp.mqttServer"
  /\ mqttAddr' = config.MQTTPort
  /\ sub' = [sub EXCEPT !["mqttServer"] = "started"]
  /\ pc' = "startupApp.mqttWs"
  /\ UNCHANGED <<keptVars, cfgVars, certVars, err, lockVars, part, httpAddr, wsAddr,
                 serverURL, binRPCURL>>

\* startupApp(): mqttWs := &service.WebsocketHandler{Addr: cfg.MQTT.Port}
StartupAppMqttWs ==
  /\ pc = "startupApp.mqttWs"
  /\ wsAddr' = config.MQTTPort
  /\ pc' = "startupApp.ServerURL.host"
  /\ UNCHANGED <<keptVars, cfgVars, certVars, sub, err, lockVars, part, httpAddr,
                 mqttAddr, serverURL, binRPCURL>>

\* startupApp(): cfg.Host.Address is read, for ServerURL and for BinRPCURL
ReadHostAddress ==
  /\ pc \in {"startupApp.ServerURL.host", "startupApp.BinRPCURL.host"}
  /\ part' = config.HostAddress
  /\ pc' = IF pc = "startupApp.ServerURL.host" THEN "startupApp.ServerURL.port"
           ELSE "startupApp.BinRPCURL.port"
  /\ UNCHANGED <<keptVars, cfgVars, certVars, sub, err, lockVars, httpAddr, mqttAddr,
                 wsAddr, serverURL, binRPCURL>>

\* startupApp(): ServerURL: "http://" + cfg.Host.Address + ":" + cfg.HTTP.Port
StartupAppServerURL ==
  /\ pc = "startupApp.ServerURL.port"
  /\ serverURL' = <<part, config.HTTPPort>>
  /\ pc' = "startupApp.BinRPCURL.host"
  /\ UNCHANGED <<keptVars, cfgVars, certVars, sub, err, lockVars, part, httpAddr,
                 mqttAddr, wsAddr, binRPCURL>>

\* startupApp(): BinRPCURL: "xmlrpc_bin://" + cfg.Host.Address + ":" +
\* cfg.BINRPC.Port; the remaining start calls follow
StartupAppBinRPCURL ==
  /\ pc = "startupApp.BinRPCURL.port"
  /\ binRPCURL' = <<part, config.BINRPCPort>>
  /\ pc' = Phase.startupApp.unlock
  /\ UNCHANGED <<keptVars, cfgVars, certVars, sub, err, lockVars, part, httpAddr,
                 mqttAddr, wsAddr, serverURL>>

\* time.Sleep, then the wait-select is left by a signal or a serve error
\* and the deferred shutdownApp() and shutdownBase() run
AfterStartup ==
  /\ pc \in {"sleep", "select", "shutdown"}
  /\ pc' = IF pc = "sleep" THEN "select"
           ELSE IF pc = "select" THEN "shutdown" ELSE "persist"
  /\ sub' = IF pc = "shutdown"
            THEN [sub EXCEPT !["httpServer"] = "stopped", !["mqttServer"] = "stopped"]
            ELSE sub
  /\ UNCHANGED <<keptVars, cfgVars, certVars, err, lockVars, addrVars>>

\* the deferred store.Write(); store.Close()
Persist ==
  /\ pc = "persist"
  /\ store' = "closed"
  /\ pc' = "returned"
  /\ UNCHANGED <<keptVars, certVars, sub, err, lockVars, addrVars>>

\* a client of the REST server writes the configuration resource: the
\* handler calls store.Lock()
WriterLock ==
  /\ sub["httpServer"] = "started"
  /\ writer = "idle"
  /\ writes < MaxWrites
  /\ writer' = "waiting"
  /\ UNCHANGED <<keptVars, cfgVars, certVars, sub, err, pc, rlocks, writes, config,
                 addrVars>>

\* store.Lock() returns once no read lock is held
WriterAcquire ==
  /\ writer = "waiting"
  /\ rlocks = 0
  /\ writer' = "writing"
  /\ UNCHANGED <<keptVars, cfgVars, certVars, sub, err, pc, rlocks, writes, config,
                 addrVars>>

\* the handler changes store.Config and calls store.Unlock()
WriterStore ==
  /\ writer = "writing"
  /\ config' \in Configs \ {config}
  /\ writes' = writes + 1
  /\ writer' = "idle"
  /\ UNCHANGED <<keptVars, cfgVars, certVars, sub, err, pc, rlocks, addrVars>>

\* the main task from configure() to the end of startupApp()
CfgStartup ==
  \/ StoreRead
  \/ \E ph \in Phases : RLock(ph)
  \/ \E ph \in Phases : RUnlock(ph)
  \/ ConfigureLogging
  \/ MessageLog
  \/ CertificatesStat
  \/ CertificatesGenerate
  \/ StartupBaseHTTPServer
  \/ StartupAppMqttServer
  \/ StartupAppMqttWs
  \/ ReadHostAddress
  \/ StartupAppServerURL
  \/ StartupAppBinRPCURL

CfgNext ==
  \/ CfgStartup
  \/ AfterStartup
  \/ Persist
  \/ WriterLock
  \/ WriterAcquire
  \/ WriterStore

\* run() at the granularity of the configuration lock, with a writer
CfgSpec == Init /\ [][CfgNext]_vars

\* the main task goes on through the startup phases whenever it can, and so
\* does a writer that has called store.Lock()
FairCfgSpec ==
  CfgSpec /\ WF_vars(CfgStartup) /\ WF_vars(WriterAcquire) /\ WF_vars(WriterStore)

\* ------------------------------------------------------------ properties
Range(f) == {f[i] : i \in DOMAIN f}

Reverse(q) == [i \in 1..Len(q) |-> q[Len(q) + 1 - i]]

IsPrefix(a, b) == Len(a) <= Len(b) /\ a = SubSeq(b, 1, Len(a))

\* the subsystems named by the calls of one kind, in call order
CallNames(kind) ==
  LET q == SelectSeq(calls, LAMBDA c : c[1] = kind)
  IN  [i \in 1..Len(q) |-> q[i][2]]

StartNames == CallNames("start")
StopNames == CallNames("stop")

\* run() has returned to main()
Returned == pc \in {"returned", "exited"}

StartOrder ==
  <<"httpServer", "sysVarCol", "prgCol", "mqttServer", "reGaDOM", "deviceCol", "intercon">>

\* C1: once run() has left the wait-select the stop calls issued so far are
\* the first stop calls of: Interconnector, device collection, ReGaDOM,
\* broker, program collection, system-variable collection, REST transport;
\* when run() has returned all of them were issued, in exactly this order,
\* the reverse of the order of the start calls.
C1_StopsReverseStarts ==
  branch # "none" =>
    /\ StartNames = StartOrder
    /\ IsPrefix(StopNames, Reverse(StartNames))
    /\ IsPrefix(StopNames,
                <<"intercon", "deviceCol", "reGaDOM", "mqttServer", "prgCol",
                  "sysVarCol", "httpServer">>)
    /\ Returned => Len(StopNames) = Len(StartNames)

\* C1 witness: run() has returned through the wait phase with all seven
\* subsystems stopped.
C1_Witness == pc = "returned" /\ branch = "sig" /\ Len(StopNames) = 7

\* C2: state part. The process exits with 0 exactly when the wait-select was
\* left through the signal branch, with 1 after a configuration, certificate
\* or serve error; run() returns no error exactly via the signal branch, and
\* the error branch returns the serve error.
C2_ExitInv ==
  /\ pc = "exited" =>
       /\ exitCode \in {0, 1}
       /\ exitCode = 0 <=> branch = "sig"
       /\ err \in {"ConfigError", "LogFileError", "CertificateError", "ServeError"}
            => exitCode = 1
  /\ pc # "exited" => exitCode = -1
  /\ Returned => (err = "nil" <=> branch = "sig")
  /\ branch = "err" <=> err = "ServeError"
  /\ branch = "none" /\ Returned => err \in {"ConfigError", "LogFileError", "CertificateError"}

\* C2: the exit code is 0 if and only if run() left the wait-select through
\* the signal branch and 1 after a configuration, certificate or serve error;
\* whatever the interleaving of signal and serve error, one branch of the
\* select is taken, once, and it decides the result for good.
C2_ExitCodeBySelectBranch ==
  /\ []C2_ExitInv
  /\ [][/\ branch # "none" => branch' = branch
        /\ branch # branch' => pc = "select" /\ pc' = "unwind"
        /\ branch # "none" => err' = err]_vars

\* C2 witness: a listener had failed during startup, so that its error was
\* offered when the select was reached, yet the signal branch was taken and
\* the process exited 0.
C2_Witness ==
  /\ pc = "exited"
  /\ exitCode = 0
  /\ branch = "sig"
  /\ earlyFail

\* C3: whenever the Interconnector's start call has been issued, the chain
\* was built before (intercon.Receiver is the MQTT event receiver, whose
\* Broker is the broker and whose Next is the device collection), the device
\* collection was started before, and the Interconnector's start is the last
\* of the seven start calls; while the Interconnector runs, the device
\* collection and the broker run.
C3_PipelineBeforeProducer ==
  Start("intercon") \in Range(calls) =>
    /\ receiver = "mqttReceiver"
    /\ mqttReceiver = [Broker |-> "mqttServer", Next |-> "deviceCol"]
    /\ StartNames[Len(StartNames)] = "intercon"
    /\ Len(StartNames) = Cardinality(Subsystems)
    /\ \E i, j \in 1..Len(StartNames) :
         i < j /\ StartNames[i] = "deviceCol" /\ StartNames[j] = "intercon"
    /\ sub["intercon"] = "started" =>
         sub["deviceCol"] = "started" /\ sub["mqttServer"] = "started"

\* C3 witness: the Interconnector runs and is delivering an event to the
\* head of the chain.
C3_Witness == sub["intercon"] = "started" /\ cb # <<>> /\ cb[1] = "mqttReceiver"

\* the events of the sink entries of one kind, in the order they were made
SinkEvents(kind) ==
  LET q == SelectSeq(sink, LAMBDA r : r[1] = kind)
  IN  [i \in 1..Len(q) |-> q[i][2]]

Publishes == SinkEvents("publish")
Updates == SinkEvents("update")

\* the i-th arrived event was not dropped at stage 1
PublishedAt(i) ==
  \/ i <= Len(outcome) /\ outcome[i] \in {"ok", "updateFailed"}
  \/ i = Len(outcome) + 1 /\ cb # <<>> /\ cb[1] = "deviceCol"

\* the i-th arrived event was dropped at neither stage
UpdatedAt(i) == i <= Len(outcome) /\ outcome[i] = "ok"

\* the arrived events whose index passes the test, in arrival order
ArrivedWhere(Test(_)) ==
  LET idx == SelectSeq([i \in 1..Len(arrived) |-> i], Test)
  IN  [k \in 1..Len(idx) |-> arrived[idx[k]]]

\* every update directly follows the publish of the same event
PublishBeforeUpdate ==
  \A j \in 1..Len(sink) :
    sink[j][1] = "update" => j > 1 /\ sink[j - 1] = <<"publish", sink[j][2]>>

\* C4 as stated: when no delivery is in progress, the publishes and the
\* device-cache updates are each the arrival sequence, and each update
\* follows the publish of its event.
C4_Original ==
  cb = <<>> => Publishes = arrived /\ Updates = arrived /\ PublishBeforeUpdate

\* C4 amended: the publishes are the arrived events not dropped by a publish
\* failure and the cache updates the arrived events dropped at neither
\* stage, each in arrival order (so both are the arrival sequence when no
\* stage failed); each update follows the publish of its event.
C4_OrderPreserved ==
  /\ Publishes = ArrivedWhere(PublishedAt)
  /\ Updates = ArrivedWhere(UpdatedAt)
  /\ PublishBeforeUpdate
  /\ (cb = <<>> /\ \A i \in 1..Len(outcome) : outcome[i] = "ok")
       => Publishes = arrived /\ Updates = arrived

\* C4 witness: two different events arrived, the first was dropped by a
\* cache-update failure, the second went through both stages.
C4_Witness ==
  /\ arrived = <<"evB", "evA">>
  /\ outcome = <<"updateFailed", "ok">>
  /\ sink = <<<<"publish", "evB">>, <<"publish", "evA">>, <<"update", "evA">>>>

\* the sink entries made for one arrived event
Entries(o) == IF o = "ok" THEN 2 ELSE IF o = "updateFailed" THEN 1 ELSE 0

RECURSIVE EntriesUpTo(_)
\* the sink entries made for the first k arrived events
EntriesUpTo(k) == IF k = 0 THEN 0 ELSE EntriesUpTo(k - 1) + Entries(outcome[k])

\* C5: state part. Every arrived event met both handlers unless its own
\* publish failed; the event after a dropped one was published and then
\* applied to the cache; no forwarding error is offered on or was received
\* from the fatal-error channel.
C5_FailureInv ==
  /\ ~fwdErr
  /\ errSrc # <<"eventHandler">>
  /\ \A i \in 1..Len(outcome) : outcome[i] \in {"ok", "publishFailed", "updateFailed"}
  /\ Len(sink) >= EntriesUpTo(Len(outcome))
  /\ \A k \in 1..(Len(outcome) - 1) :
       outcome[k] # "ok" /\ outcome[k + 1] = "ok" =>
         /\ sink[EntriesUpTo(k) + 1] = <<"publish", arrived[k + 1]>>
         /\ sink[EntriesUpTo(k) + 2] = <<"update", arrived[k + 1]>>

\* C5: a forwarding failure on event K leaves the chain idle for event K+1,
\* which is processed by both stages; the step that drops an event changes
\* neither the orchestrator's position or result nor any listener, and sends
\* nothing on the fatal-error channel.
C5_FailureIsolated ==
  /\ []C5_FailureInv
  /\ [][(Len(outcome') > Len(outcome) /\ outcome'[Len(outcome')] # "ok") =>
          /\ cb' = <<>>
          /\ ~fwdErr'
          /\ UNCHANGED <<mainVars, sub, lst, calls>>]_vars

\* C5 witness: the first event was dropped by a publish failure, the second
\* went through both stages, and the orchestrator still waits in the select.
C5_Witness ==
  /\ outcome = <<"publishFailed", "ok">>
  /\ Len(sink) = 2
  /\ pc = "select"

\* the last two lifecycle calls are store.Write and store.Close, each made once
StoreCallsLast ==
  /\ Len(calls) >= 2
  /\ calls[Len(calls) - 1] = <<"store", "Write">>
  /\ calls[Len(calls)] = <<"store", "Close">>
  /\ Cardinality({i \in 1..Len(calls) : calls[i][1] = "store"}) = 2

\* C6 as stated: whenever run() has returned after store.Read() succeeded,
\* store.Write and store.Close were executed, as the last lifecycle calls.
C6_Original == (Returned /\ store # "unread") => StoreCallsLast

\* C6 amended: whenever run() has returned after configure() returned no
\* error (the store read and the log file, if one is configured, opened),
\* store.Write and then store.Close were executed, once each, after every
\* stop call; at no time does a start or stop call follow a store call, and a
\* run whose configure() failed makes no store call.
C6_StorePersistedLast ==
  /\ (Returned /\ err \notin {"ConfigError", "LogFileError"}) =>
       StoreCallsLast /\ store = "closed"
  /\ \A i, j \in 1..Len(calls) :
       (i < j /\ calls[i][1] = "store") => calls[j][1] = "store"
  /\ err \in {"ConfigError", "LogFileError"} =>
       \A i \in 1..Len(calls) : calls[i][1] # "store"

\* C6 witness: run() has returned with a serve error after all seven stop
\* calls, and the store is written and closed.
C6_Witness ==
  /\ pc = "returned"
  /\ branch = "err"
  /\ Len(StopNames) = 7
  /\ store = "closed"

\* no task started by run() is running or blocked
NoTaskRunning ==
  /\ \A s \in Subsystems : sub[s] # "started"
  /\ \A l \in Listeners : lst[l] \notin {"serving", "failed"}
  /\ cb = <<>>
  /\ ~fwdErr

\* C7 as stated: once a subsystem is started, run() eventually returns with
\* that subsystem stopped.
C7_Original ==
  \A s \in Subsystems : (sub[s] = "started") ~> (Returned /\ sub[s] = "stopped")

\* C7 amended: whenever run() has returned, every subsystem it started is
\* stopped and no listener, loop or callback task is running or blocked; and
\* run() does return once a termination signal is queued or a listener has
\* failed (without either it keeps waiting in the select).
C7_StoppedWhenReturned ==
  /\ [](Returned =>
          /\ NoTaskRunning
          /\ \A s \in Subsystems : Start(s) \in Range(calls) => sub[s] = "stopped")
  /\ (termSig > 0 \/ \E l \in Listeners : lst[l] = "failed") ~> Returned

\* C7 witness: a listener failed and a signal arrived, run() has returned
\* through the error branch and all seven subsystems are stopped.
C7_Witness ==
  /\ pc = "returned"
  /\ branch = "err"
  /\ sigSeen
  /\ \A s \in Subsystems : sub[s] = "stopped"

\* C8: when no termination signal is ever delivered, a listener failure, be
\* it during startup, the delay or the wait, leads to the process exiting
\* with 1 after the error was received in the wait-select and all seven stop
\* calls were made in reverse start order; a failure during startup does not
\* keep startup from completing.
C8_ListenerFailureExits1 ==
  ([]~sigSeen) =>
    /\ (\E l \in Listeners : lst[l] \in {"failed", "crashed"}) ~>
         /\ pc = "exited"
         /\ exitCode = 1
         /\ branch = "err"
         /\ err = "ServeError"
         /\ StartNames = StartOrder
         /\ StopNames = Reverse(StartOrder)
         /\ NoTaskRunning
    /\ (pc \in StartupPcs /\ \E l \in Listeners : lst[l] \in {"failed", "crashed"})
         ~> (pc = "select")

\* C8 witness: the pub/sub TLS listener failed during startup, no signal was
\* delivered, and the process exited with 1 on its error.
C8_Witness ==
  /\ pc = "exited"
  /\ exitCode = 1
  /\ errSrc = <<"mqttTLS">>
  /\ earlyFail
  /\ ~sigSeen

\* C9: state part. When configure() failed, nothing was started: no start or
\* stop call, no listener, no subsystem object, no signal queue, no
\* certificate bootstrap; run() is returning that error and the process
\* exits with 1.
C9_ConfigErrorInv ==
  err \in {"ConfigError", "LogFileError"} =>
    /\ calls = <<>>
    /\ \A l \in Listeners : lst[l] = "idle"
    /\ \A s \in Subsystems : sub[s] = "nil"
    /\ ~certsDone
    /\ ~sigReg
    /\ pc \in {"unwind", "logShutdown", "returned", "exited"}
    /\ pc = "exited" => exitCode = 1

\* C9: when loading the configuration fails, run() returns the error with no
\* listener bound and no subsystem started, the process exits with 1, and no
\* step of that run, the failing configure() included, creates or changes a
\* certificate file.
C9_ConfigErrorStartsNothing ==
  /\ []C9_ConfigErrorInv
  /\ [][err' \in {"ConfigError", "LogFileError"} => files' = files]_vars

\* C9 witness: the configuration could not be read, no certificate file
\* exists, and the process has exited with 1.
C9_Witness == pc = "exited" /\ err = "ConfigError" /\ exitCode = 1 /\ files = {}

\* C10: whenever a listener or any subsystem has been started,
\* certificates() had returned no error and the server certificate and key
\* are on disk; when certificates() failed, no listener and no subsystem was
\* started, and run() is returning that error, the process exiting with 1.
C10_CertificatesBeforeListeners ==
  /\ ((\E l \in Listeners : lst[l] # "idle") \/ StartNames # <<>>) =>
       certsDone /\ CertPresent
  /\ ~certsDone => \A l \in Listeners : lst[l] = "idle"
  /\ err = "CertificateError" =>
       /\ ~certsDone
       /\ StartNames = <<>> /\ StopNames = <<>>
       /\ \A l \in Listeners : lst[l] = "idle"
       /\ \A s \in Subsystems : sub[s] = "nil"
       /\ pc \in {"unwind", "storeWriteClose", "logShutdown", "returned", "exited"}
       /\ pc = "exited" => exitCode = 1

\* C10 witness: the certificate bootstrap succeeded, the four files are on
\* disk and the pub/sub TLS listener is serving.
C10_Witness == lst["mqttTLS"] = "serving" /\ certsDone /\ files = CertFiles

\* the main task is busy in startupBase, startupApp or the delay
Busy == pc \in StartupPcs \cup {"sleep"}

\* a listener's serve error is offered on serveErr
ServeErrorPending == \E l \in Listeners : lst[l] = "failed"

\* C11: a termination signal delivered after signal.Notify while the main
\* task is busy in startupBase, startupApp or the delay stays queued until
\* the wait-select is reached and taken; when no listener ever fails, run()
\* then takes the signal branch, makes all seven stop calls in reverse start
\* order and returns no error.
C11_SignalNotLost ==
  /\ []((sigSeen /\ (Busy \/ pc = "select")) => termSig = 1)
  /\ ([]~ServeErrorPending) =>
       ((sigSeen /\ Busy) ~>
          /\ Returned
          /\ err = "nil"
          /\ branch = "sig"
          /\ StopNames = Reverse(StartOrder)
          /\ NoTaskRunning)

\* C11 witness: the signal was the first event, it is queued, all listeners
\* serve, and the main task is still in the delay.
C11_Witness ==
  /\ pc = "sleep"
  /\ firstArrival = "sig"
  /\ termSig = 1
  /\ \A l \in Listeners : lst[l] = "serving"

\* run() leaves the wait-select in this step
SelectTaken == branch = "none" /\ branch' # "none"

\* C12 as stated: the branch by which run() leaves the wait-select is the
\* one whose event (signal or serve error) arrived first.
C12_Original == [][SelectTaken => branch' = firstArrival]_vars

\* C12 amended: run() leaves the wait-select once, through a branch whose
\* event has arrived and is pending: the signal branch only with a signal
\* queued, the error branch only with the error of a listener that offers
\* it; when only one of the two has arrived that branch is taken (when both
\* are pending the order of arrival does not decide).
C12_ReadyBranchTaken ==
  [][SelectTaken =>
       /\ pc = "select" /\ pc' = "unwind"
       /\ firstArrival # "none"
       /\ branch' = "sig" => termSig > 0 /\ termSig' = termSig - 1
       /\ branch' = "err" =>
            \E l \in Listeners : lst[l] = "failed" /\ errSrc' = <<l>> /\ lst'[l] = "ended"
       /\ termSig = 0 => branch' = "err"
       /\ ~ServeErrorPending => branch' = "sig"]_vars

\* C12 witness: a listener's error had arrived during startup and is still
\* offered, yet run() has just left the wait-select through the signal
\* branch.
C12_Witness ==
  /\ pc = "unwind"
  /\ Len(defers) = 4
  /\ branch = "sig"
  /\ earlyFail
  /\ ServeErrorPending

\* C13: the error received in the wait-select is the one run() returns; once
\* run() has left the select, through either branch, its result and the
\* producer it names stay as they are, a listener failing then changes
\* nothing of the main task, the process exits with the code of that
\* result, and the shutdown runs to completion: all seven stop calls are
\* made and no task is left offering an error.
C13_LaterErrorsIgnored ==
  /\ [][/\ (SelectTaken /\ branch' = "err") =>
             err' = "ServeError" /\ \E l \in Listeners : lst[l] = "failed" /\ errSrc' = <<l>>
        /\ branch # "none" => err' = err /\ errSrc' = errSrc /\ branch' = branch
        /\ (branch # "none" /\ \E l \in Listeners : lst[l] # "failed" /\ lst'[l] = "failed")
             => UNCHANGED <<mainVars, calls, sub>>]_vars
  /\ [](pc = "exited" => exitCode = IF branch = "sig" THEN 0 ELSE 1)
  /\ (branch # "none") ~>
       /\ pc = "exited"
       /\ StopNames = Reverse(StartOrder)
       /\ ~ServeErrorPending
       /\ branch = "err" => err = "ServeError" /\ exitCode = 1
       /\ branch = "sig" => err = "nil" /\ exitCode = 0

\* C13 witness: run() returns the error of the plain pub/sub listener, six
\* stop calls are made, and the REST TLS listener offers an error nobody
\* will receive.
C13_Witness ==
  /\ pc = "shutdownBase"
  /\ branch = "err"
  /\ errSrc = <<"mqttPlain">>
  /\ err = "ServeError"
  /\ lst["httpTLS"] = "failed"
  /\ Len(StopNames) = 6

\* the positions of the calls of one kind for subsystem s
CallsAt(kind, s) == {i \in 1..Len(calls) : calls[i] = <<kind, s>>}

\* C18: every stop call issued is on a subsystem whose start call was issued
\* before in this run, and is issued at most once; a run that fails in
\* configure() or certificates() issues no stop call at all.
C18_UnwindOnlyStarted ==
  /\ \A s \in Subsystems :
       /\ Cardinality(CallsAt("stop", s)) <= 1
       /\ \A j \in CallsAt("stop", s) : \E i \in CallsAt("start", s) : i < j
       /\ sub[s] = "stopped" => CallsAt("start", s) # {}
  /\ \A i \in 1..Len(calls) : calls[i][1] = "stop" => calls[i][2] \in Subsystems
  /\ err \in {"ConfigError", "LogFileError", "CertificateError"} =>
       /\ StopNames = <<>>
       /\ \A s \in Subsystems : sub[s] = "nil"
       /\ pc \notin {"shutdownApp", "shutdownBase"}
       /\ "shutdownApp" \notin Range(defers) /\ "shutdownBase" \notin Range(defers)

\* C18 witness: certificates() failed, the deferred functions have run (the
\* store is closed), run() has returned, and no stop call was issued.
C18_Witness ==
  /\ pc = "returned"
  /\ err = "CertificateError"
  /\ store = "closed"
  /\ StopNames = <<>>

\* C19: a stop call is issued only after all seven start calls, after the
\* delay, and after run() has left the wait-select; during startup and the
\* delay no stop call has been issued, also with a signal queued or a
\* listener error offered; in the call history no start call follows a stop
\* call.
C19_NoStopBeforeStartupDone ==
  /\ StopNames # <<>> => Len(StartNames) = 7 /\ branch # "none"
  /\ (Busy \/ pc = "select") => StopNames = <<>> /\ branch = "none"
  /\ pc \in {"shutdownApp", "shutdownBase"} => Len(StartNames) = 7 /\ branch # "none"
  /\ \A i, j \in 1..Len(calls) :
       (i < j /\ calls[i][1] = "stop") => calls[j][1] # "start"

\* C19 witness: a listener error was offered during startup, startup went
\* on to its seventh start call, and only after the select the first stop
\* call was issued.
C19_Witness ==
  /\ pc = "shutdownApp"
  /\ stopIdx = 2
  /\ earlyFail
  /\ branch = "err"
  /\ StartNames = StartOrder
  /\ StopNames = <<"intercon">>

\* the server certificate file and the server key file both exist
PairOnDisk == {serverCertFile, serverKeyFile} \subseteq files

\* this step is an invocation of certificates()
Invoked == certCalls' = certCalls + 1

\* C14: an invocation of certificates() that follows a successful one, and
\* any invocation that finds the server certificate and the server key,
\* returns no error, writes nothing and leaves the files and their content
\* as they are, whether or not the CA files exist; content is written only
\* by an invocation that finds the server certificate or the server key
\* missing, and when that invocation succeeds all four files exist with the
\* content it generated.
C14_BootstrapIdempotent ==
  /\ [][Invoked =>
         /\ certsDone => err' = "nil" /\ files' = files /\ content' = content
         /\ PairOnDisk => err' = "nil" /\ files' = files /\ content' = content
         /\ content' # content => ~PairOnDisk
         /\ (~PairOnDisk /\ err' = "nil") =>
              /\ files' = CertFiles
              /\ content' = [f \in CertFiles |-> certCalls']
         /\ files \subseteq files']_vars
  /\ [](certsDone => PairOnDisk)

\* C14 witness: the first invocation generated the four files, the second
\* and the third returned no error and wrote nothing.
C14_Witness ==
  /\ certCalls = 3
  /\ certsDone
  /\ files = CertFiles
  /\ content = [f \in CertFiles |-> 1]

\* C15 as stated: the port in the text-callback URL built in startupApp()
\* is the port the REST listener was bound to in startupBase(), and the
\* web-socket bridge targets the port the broker was bound to, whatever a
\* configuration writer does meanwhile.
C15_Original ==
  /\ serverURL[2] # "unset" => serverURL[2] = httpAddr
  /\ wsAddr # "unset" => wsAddr = mqttAddr

\* C16 as stated: the CORS handler never permits credentials together with
\* the wildcard origin; with an empty origin list every origin is allowed
\* and credentials are not permitted, with a non-empty list exactly the
\* configured origins are allowed and credentials are permitted.
C16_Original ==
  corsPolicy # NoPolicy =>
    /\ ~(corsPolicy.credentials /\ "*" \in corsPolicy.origins)
    /\ corsOrigins = <<>> => corsPolicy.origins = {"*"} /\ ~corsPolicy.credentials
    /\ corsOrigins # <<>> =>
         corsPolicy.origins = Range(corsOrigins) /\ corsPolicy.credentials

\* C17: a callback URL is completed while the main task holds the read lock
\* it took once for startupApp(), and the host address and the port it
\* combines are those of the one configuration in force at that moment; the
\* configuration does not change and no writer holds the lock while the
\* main task holds the read lock.
C17_NoTornComposite ==
  /\ [][/\ serverURL' # serverURL =>
             /\ rlocks = 1 /\ rlocks' = 1
             /\ serverURL' = <<config.HostAddress, config.HTTPPort>>
        /\ binRPCURL' # binRPCURL =>
             /\ rlocks = 1 /\ rlocks' = 1
             /\ binRPCURL' = <<config.HostAddress, config.BINRPCPort>>
        /\ part' # part => rlocks = 1 /\ part' = config.HostAddress
        /\ (rlocks > 0 /\ rlocks' > 0) => config' = config]_vars
  /\ [](rlocks > 0 => writer # "writing")
  /\ [](pc \in {"startupApp.ServerURL.port", "startupApp.BinRPCURL.port"} =>
          part = config.HostAddress)

\* C17 witness: the configuration was written before startupApp() took the
\* lock, the text-callback URL is built from the written values, the host
\* address for the binary-callback URL is read, and a writer waits for the
\* lock.
C17_Witness ==
  /\ pc = "startupApp.BinRPCURL.port"
  /\ writes = 1
  /\ writer = "waiting"
  /\ config.HostAddress = "v2" /\ config.HTTPPort = "v2"
  /\ serverURL = <<"v2", "v2">>
  /\ part = "v2"

\* the positions at which the main task holds the read lock
UnderLock ==
  {Phase[ph].body : ph \in Phases} \cup {Phase[ph].unlock : ph \in Phases} \cup
  {"startupApp.mqttWs", "startupApp.ServerURL.host", "startupApp.ServerURL.port",
   "startupApp.BinRPCURL.host", "startupApp.BinRPCURL.port"}

\* C20: the main task holds the read lock exactly while it is inside the
\* locked part of configure, message, certificates, startupBase or
\* startupApp, one lock at most; it holds none at the entry of a phase,
\* during the delay, the wait-select, the shutdown, the persistence, or when
\* run() has returned, with or without an error; a writer that waits for the
\* lock gets it.
C20_ReadLockBalanced ==
  /\ [](rlocks \in {0, 1})
  /\ [](rlocks = 1 <=> pc \in UnderLock)
  /\ [](pc \in {"sleep", "select", "shutdown", "persist", "returned"} => rlocks = 0)
  /\ []((writer = "waiting" /\ rlocks > 0) => pc \in UnderLock)
  /\ (writer = "waiting") ~> (writer = "writing")

\* C20 witness: configure() failed to open the log file after it had taken
\* the read lock, run() has returned that error, and no lock is held.
C20_Witness ==
  /\ pc = "returned"
  /\ err = "LogFileError"
  /\ store = "read"
  /\ rlocks = 0
====
